---- MODULE Spec2Model ----
(***************************************************************************)
(* Model of src-tauri/src/lib.rs: the bootstrap `run` (setup closure,     *)
(* window construction, injected initialization script, event loop) and   *)
(* the command handler `show_main_window`.                                 *)
(*                                                                         *)
(* Three specifications:                                                   *)
(*   Spec        the program as run() builds it.  The Builder chain of     *)
(*               lines 3-38 holds no invoke_handler(..), so the command    *)
(*               table is empty and an invocation from the document is     *)
(*               answered "not_found"; the handler body never executes.    *)
(*   SpecLive    Spec with the fairness of the clock and of the            *)
(*               document's timer callback.                                *)
(*   SpecHandler Spec plus `Call`: the handler body of lines 44-47         *)
(*               executed on a window handle by some dispatcher.  It       *)
(*               settles what the function does when it is executed.       *)
(***************************************************************************)
EXTENDS Naturals, Sequences, FiniteSets

VARIABLES
    debug_assertions, \* cfg!(debug_assertions): the build configuration
    pc,               \* position of run(): "setup", "build", "running", "aborted"
    setup_error,      \* the Err propagated out of the setup closure, or "none"
    logger,           \* TRUE once tauri_plugin_log is attached
    windows,          \* the window registry, in creation order
    dom,              \* the document: "none", "created", "loading", "loaded"
    timers,           \* deadlines (ms) of the pending setTimeout callbacks
    now,              \* the clock, in ms
    signal_at,        \* <<t>>: DOMContentLoaded fired at t
    shown_at,         \* <<t>>: the scripted show ran at t
    writes,           \* the writers of visibility, in the order they wrote
    log,              \* the entries the logging facility recorded
    response,         \* outcome of the last command invocation
    invoked,          \* invocations issued by the document
    handled,          \* executions of the handler body
    handle            \* the window handle of the last execution, or "none"

vars == <<debug_assertions, pc, setup_error, logger, windows, dom, timers,
          now, signal_at, shown_at, writes, log, response, invoked, handled, handle>>

-----------------------------------------------------------------------------
(* Bounds of the model. *)
MaxTime == 2000
MaxCalls == 2

(* The clock advances by one of these amounts (ms). *)
TickSteps == {250, 1000}

(* setTimeout(.., 1000), line 21. *)
Delay == 1000

(* The window handles a handler execution can be given: the handle of      *)
(* "main", or the handle of a window that is no longer in the registry.    *)
Handles == {"main", "destroyed"}

-----------------------------------------------------------------------------
(* The window registry. *)

Exists(label) == \E i \in DOMAIN windows : windows[i].label = label

Visible(label) == \E i \in DOMAIN windows :
                      windows[i].label = label /\ windows[i].visible

Count(label) == Cardinality({i \in DOMAIN windows : windows[i].label = label})

(* Window::show / appWindow.show(): visibility of the window becomes true. *)
window_show_toggle(ws, label) ==
    [i \in DOMAIN ws |->
        IF ws[i].label = label
        THEN [ws[i] EXCEPT !.visible = ~ws[i].visible] ELSE ws[i]]

window_show(ws, label) ==
    [i \in DOMAIN ws |->
        IF ws[i].label = label THEN [ws[i] EXCEPT !.visible = TRUE] ELSE ws[i]]

(* The commands registered on the Builder: lines 3-38 chain               *)
(* default().setup(..).run(..) and register none.                          *)
invoke_handler == {}

-----------------------------------------------------------------------------
Init ==
    /\ debug_assertions \in BOOLEAN
    /\ pc = "setup"
    /\ setup_error = "none"
    /\ logger = FALSE
    /\ windows = <<>>
    /\ dom = "none"
    /\ timers = {}
    /\ now = 0
    /\ signal_at = <<>>
    /\ shown_at = <<>>
    /\ writes = <<>>
    /\ log = <<>>
    /\ response = "none"
    /\ invoked = 0
    /\ handled = 0
    /\ handle = "none"

-----------------------------------------------------------------------------
(* run(): the setup closure, lines 4-37. *)

(* Mutant: the plugin is attached whatever the build configuration. *)
setup_plugin_always ==
    /\ pc = "setup"
    /\ logger' = TRUE
    /\ pc' = "build"
    /\ UNCHANGED <<debug_assertions, setup_error, windows, dom, timers, now,
                   signal_at, shown_at, writes, log, response, invoked, handled, handle>>

(* Mutant: the Err of plugin(..) is dropped instead of propagated by `?`. *)
setup_plugin_unchecked ==
    /\ pc = "setup"
    /\ \E ok \in BOOLEAN :
          /\ logger' = (debug_assertions /\ ok)
          /\ setup_error' = IF debug_assertions /\ ~ok THEN "plugin" ELSE "none"
    /\ pc' = "build"
    /\ UNCHANGED <<debug_assertions, windows, dom, timers, now,
                   signal_at, shown_at, writes, log, response, invoked, handled, handle>>

(* Lines 5-11: in a debug build attach the log plugin; `?` returns its    *)
(* Err from the closure and run()'s expect (line 39) aborts the process.   *)
setup_plugin ==
    /\ pc = "setup"
    /\ IF debug_assertions
       THEN \E ok \in BOOLEAN :
              IF ok
              THEN /\ logger' = TRUE
                   /\ pc' = "build"
                   /\ setup_error' = setup_error
              ELSE /\ logger' = logger
                   /\ pc' = "aborted"
                   /\ setup_error' = "plugin"
       ELSE /\ logger' = logger
            /\ pc' = "build"
            /\ setup_error' = setup_error
    /\ UNCHANGED <<debug_assertions, windows, dom, timers, now,
                   signal_at, shown_at, writes, log, response, invoked, handled, handle>>

(* Mutant: the window is built visible. *)
build_window_visible ==
    /\ pc = "build"
    /\ windows' = Append(windows,
                    [label |-> "main", url |-> "index.html", visible |-> TRUE])
    /\ dom' = "created"
    /\ pc' = "running"
    /\ UNCHANGED <<debug_assertions, setup_error, logger, timers, now,
                   signal_at, shown_at, writes, log, response, invoked, handled, handle>>

(* Lines 27-37: WebviewWindowBuilder::new(app, "main", App("index.html"))  *)
(* .initialization_script(html).visible(false).build()?; Ok(()) lets      *)
(* run() enter the event loop (line 38).                                   *)
build_window ==
    /\ pc = "build"
    /\ \E ok \in BOOLEAN :
          IF ok
          THEN /\ windows' = Append(windows,
                    [label |-> "main", url |-> "index.html", visible |-> FALSE])
               /\ dom' = "created"
               /\ pc' = "running"
               /\ setup_error' = setup_error
          ELSE /\ windows' = windows
               /\ dom' = dom
               /\ pc' = "aborted"
               /\ setup_error' = "build"
    /\ UNCHANGED <<debug_assertions, logger, timers, now,
                   signal_at, shown_at, writes, log, response, invoked, handled, handle>>

-----------------------------------------------------------------------------
(* The injected script, lines 14-24, in the document of "main". *)

(* Lines 15-17: the initialization script runs before the document's own   *)
(* scripts and registers the DOMContentLoaded listener.                    *)
initialization_script ==
    /\ pc = "running"
    /\ dom = "created"
    /\ dom' = "loading"
    /\ UNCHANGED <<debug_assertions, pc, setup_error, logger, windows, timers,
                   now, signal_at, shown_at, writes, log, response, invoked,
                   handled, handle>>

(* Mutant: the callback is scheduled with no delay. *)
DOMContentLoaded_nodelay ==
    /\ pc = "running"
    /\ dom = "loading"
    /\ dom' = "loaded"
    /\ signal_at' = Append(signal_at, now)
    /\ timers' = timers \cup {now}
    /\ UNCHANGED <<debug_assertions, pc, setup_error, logger, windows, now,
                   shown_at, writes, log, response, invoked, handled, handle>>

(* Lines 17-21: the listener fires and schedules the show Delay ms later.  *)
DOMContentLoaded ==
    /\ pc = "running"
    /\ dom = "loading"
    /\ dom' = "loaded"
    /\ signal_at' = Append(signal_at, now)
    /\ timers' = timers \cup {now + Delay}
    /\ UNCHANGED <<debug_assertions, pc, setup_error, logger, windows, now,
                   shown_at, writes, log, response, invoked, handled, handle>>

(* Mutant: the timer callback runs but shows nothing. *)
Timeout_noshow ==
    /\ pc = "running"
    /\ \E t \in timers :
          /\ now >= t
          /\ timers' = timers \ {t}
    /\ UNCHANGED <<debug_assertions, pc, setup_error, logger, windows, dom, now,
                   signal_at, shown_at, writes, log, response, invoked, handled, handle>>

(* Lines 19-21: the timer callback, not earlier than its deadline:        *)
(* window.__TAURI__.window.appWindow.show().                               *)
Timeout ==
    /\ pc = "running"
    /\ \E t \in timers :
          /\ now >= t
          /\ timers' = timers \ {t}
    /\ windows' = window_show(windows, "main")
    /\ shown_at' = Append(shown_at, now)
    /\ writes' = Append(writes, "script")
    /\ UNCHANGED <<debug_assertions, pc, setup_error, logger, dom, now,
                   signal_at, log, response, invoked, handled, handle>>

(* Time passes.  The clock stops at MaxTime unless a timer is pending.     *)
Tick ==
    /\ pc # "aborted"
    /\ \/ now < MaxTime
       \/ \E t \in timers : now < t
    /\ \E d \in TickSteps : now' = now + d
    /\ UNCHANGED <<debug_assertions, pc, setup_error, logger, windows, dom,
                   timers, signal_at, shown_at, writes, log, response, invoked,
                   handled, handle>>

-----------------------------------------------------------------------------
(* The command, lines 43-47. *)

LogEntry == [level |-> "INFO", message |-> "show main window"]

(* log::info!(..), line 45: recorded by the attached logger; with no       *)
(* logger installed the record is dropped.                                 *)
log_info(entry) == IF logger THEN Append(log, entry) ELSE log

(* Mutant: the Err of show() is dropped instead of unwrapped. *)
show_main_window_unchecked(window) ==
    /\ handled < MaxCalls
    /\ handled' = handled + 1
    /\ handle' = window
    /\ log' = log_info(LogEntry)
    /\ windows' = window_show(windows, window)
    /\ response' = "ok"
    /\ writes' = IF Exists(window) THEN Append(writes, "command") ELSE writes
    /\ UNCHANGED <<debug_assertions, pc, setup_error, logger, dom, timers, now,
                   signal_at, shown_at>>

(* Mutant: the entry is logged after the show, so not on the error path. *)
show_main_window_logs_last(window) ==
    /\ handled < MaxCalls
    /\ handled' = handled + 1
    /\ handle' = window
    /\ IF Exists(window)
       THEN /\ windows' = window_show(windows, window)
            /\ log' = log_info(LogEntry)
            /\ response' = "ok"
            /\ writes' = Append(writes, "command")
            /\ pc' = pc
       ELSE /\ windows' = windows
            /\ log' = log
            /\ response' = "panicked"
            /\ writes' = writes
            /\ \E crash \in BOOLEAN : pc' = IF crash THEN "aborted" ELSE pc
    /\ UNCHANGED <<debug_assertions, setup_error, logger, dom, timers, now,
                   signal_at, shown_at>>

(* Mutant: the entry is logged twice. *)
show_main_window_logs_twice(window) ==
    /\ handled < MaxCalls
    /\ handled' = handled + 1
    /\ handle' = window
    /\ log' = IF logger THEN log \o <<LogEntry, LogEntry>> ELSE log
    /\ IF Exists(window)
       THEN /\ windows' = window_show(windows, window)
            /\ response' = "ok"
            /\ writes' = Append(writes, "command")
            /\ pc' = pc
       ELSE /\ windows' = windows
            /\ response' = "panicked"
            /\ writes' = writes
            /\ \E crash \in BOOLEAN : pc' = IF crash THEN "aborted" ELSE pc
    /\ UNCHANGED <<debug_assertions, setup_error, logger, dom, timers, now,
                   signal_at, shown_at>>

(* Lines 44-47: log the entry, then window.show().expect(..): show() is   *)
(* Err for a window that is not in the registry and expect then panics;    *)
(* the panic unwinds the thread that ran the handler, which may be the     *)
(* thread of the event loop.                                               *)
show_main_window(window) ==
    /\ handled < MaxCalls
    /\ handled' = handled + 1
    /\ handle' = window
    /\ log' = log_info(LogEntry)
    /\ IF Exists(window)
       THEN /\ windows' = window_show(windows, window)
            /\ response' = "ok"
            /\ writes' = Append(writes, "command")
            /\ pc' = pc
       ELSE /\ windows' = windows
            /\ response' = "panicked"
            /\ writes' = writes
            /\ \E crash \in BOOLEAN : pc' = IF crash THEN "aborted" ELSE pc
    /\ UNCHANGED <<debug_assertions, setup_error, logger, dom, timers, now,
                   signal_at, shown_at>>

(* The document invokes "show_main_window" through the host's command      *)
(* mechanism; the host runs the handler registered under that name on the  *)
(* window of the calling document, and answers "not_found" when none is.   *)
Invoke ==
    /\ pc = "running"
    /\ dom \in {"loading", "loaded"}
    /\ invoked < MaxCalls
    /\ invoked' = invoked + 1
    /\ IF "show_main_window" \in invoke_handler
       THEN show_main_window("main")
       ELSE /\ response' = "not_found"
            /\ UNCHANGED <<debug_assertions, pc, setup_error, logger, windows,
                           dom, timers, now, signal_at, shown_at, writes, log,
                           handled, handle>>

(* The handler body executed on a window handle. *)
Call ==
    /\ pc = "running"
    /\ \E window \in Handles : show_main_window(window)
    /\ invoked' = invoked

-----------------------------------------------------------------------------
Next ==
    \/ setup_plugin
    \/ build_window
    \/ initialization_script
    \/ DOMContentLoaded
    \/ Timeout
    \/ Tick
    \/ Invoke

Spec == Init /\ [][Next]_vars

SpecLive == Init /\ [][Next]_vars /\ WF_vars(Tick) /\ WF_vars(Timeout)

NextHandler == Next \/ Call

SpecHandler == Init /\ [][NextHandler]_vars

-----------------------------------------------------------------------------
(* The claims. *)

Writers(w) == {i \in DOMAIN writes : writes[i] = w}

(* C1: in every build configuration, once bootstrap has succeeded there is *)
(* exactly one window, labelled "main", and it was created with            *)
(* visibility false: it is hidden as long as no writer has shown it.       *)
C1_OneHiddenMain ==
    /\ pc = "running" => (Len(windows) = 1 /\ Count("main") = 1)
    /\ pc # "running" => windows = <<>>
    /\ writes = <<>> => ~Visible("main")

C1_Witness ==
    /\ ~debug_assertions
    /\ pc = "running"
    /\ Exists("main")
    /\ ~Visible("main")

(* C2 as stated: every execution of show_main_window adds exactly one log  *)
(* entry, in debug and in release builds alike, and one that ran on an     *)
(* existing window leaves it visible.                                      *)
C2_Original ==
    [][(handled' = handled + 1 /\ Exists(handle'))
          => (/\ Visible("main")'
              /\ response' = "ok"
              /\ log' = Append(log, LogEntry))]_vars

(* C2 as amended: every execution of show_main_window on an existing       *)
(* window leaves visibility = true; it adds exactly one informational      *)
(* entry to the log in a debug build, where the logging facility is        *)
(* attached, and none in a release build; a second consecutive execution   *)
(* behaves the same.                                                       *)
C2_Amended ==
    [][(handled' = handled + 1 /\ Exists(handle'))
          => (/\ Visible("main")'
              /\ response' = "ok"
              /\ log' = IF debug_assertions
                        THEN Append(log, LogEntry) ELSE log)]_vars

C2_Witness ==
    /\ debug_assertions
    /\ handled = 2
    /\ handle = "main"
    /\ response = "ok"
    /\ Visible("main")
    /\ Len(log) = 2
    /\ writes = <<"command", "command">>

(* C3 as stated: after a successful bootstrap every invocation of          *)
(* show_main_window from the document is dispatched to the handler and     *)
(* takes effect.                                                           *)
C3_Dispatched ==
    invoked > 0 => (handled = invoked /\ response = "ok" /\ Visible("main"))

(* C4: an execution of show_main_window on a window that does not exist    *)
(* (its show fails) aborts: it ends panicked, never "ok", and writes no    *)
(* visibility.                                                             *)
C4_AbortsOnMissingWindow ==
    [][(handled' = handled + 1 /\ ~Exists(handle'))
          => (/\ response' = "panicked"
              /\ windows' = windows
              /\ writes' = writes)]_vars

C4_Witness ==
    /\ handle = "destroyed"
    /\ response = "panicked"
    /\ ~Visible("main")

(* C5: in a debug build the logging facility is attached before the        *)
(* window is built (already when run() is about to build it); in a         *)
(* release build it is never attached.                                     *)
C5_LoggerBeforeWindow ==
    /\ (debug_assertions /\ (pc = "build" \/ Exists("main"))) => logger
    /\ ~debug_assertions => ~logger

C5_Witness ==
    /\ debug_assertions
    /\ logger
    /\ pc = "build"
    /\ windows = <<>>

(* C6: the delayed show is scheduled only once the load-complete signal    *)
(* has fired, its deadline is that signal plus 1000 ms, and the scripted   *)
(* show never runs before that deadline.                                   *)
C6_ShowAfterSignalPlusDelay ==
    /\ dom # "loaded" => (timers = {} /\ shown_at = <<>> /\ signal_at = <<>>)
    /\ timers # {} => (Len(signal_at) = 1 /\ timers = {signal_at[1] + 1000})
    /\ shown_at # <<>> =>
          /\ Len(signal_at) = 1
          /\ \A i \in DOMAIN shown_at : shown_at[i] >= signal_at[1] + 1000
    /\ Writers("script") # {} => now >= signal_at[1] + 1000

C6_Witness ==
    /\ shown_at # <<>>
    /\ Visible("main")
    /\ signal_at # <<>>
    /\ signal_at[1] > 0

(* C7: a setup error (the logging facility failing to attach in a debug    *)
(* build, or the window failing to build) aborts startup: no window and no *)
(* document exist, the event loop never runs, nothing runs afterwards.     *)
C7_SetupErrorAborts ==
    /\ setup_error # "none" =>
          /\ pc = "aborted"
          /\ windows = <<>>
          /\ dom = "none"
          /\ timers = {}
          /\ ~ENABLED Next
    /\ pc = "aborted" => setup_error # "none"

C7_Witness ==
    /\ debug_assertions
    /\ setup_error = "plugin"
    /\ pc = "aborted"
    /\ ~logger

(* C8: the two writers of visibility fire in either order; once both have  *)
(* written the window is visible, and no step ever takes visibility from   *)
(* true back to false.                                                     *)
C8_BothWritten ==
    (Writers("script") # {} /\ Writers("command") # {}) => Visible("main")

C8_WritersCommute ==
    /\ []C8_BothWritten
    /\ [][Visible("main") => Visible("main")']_vars
    /\ [][writes' # writes => Visible("main")']_vars

C8_Witness ==
    /\ writes = <<"command", "script">>
    /\ Visible("main")

(* C9: after a successful bootstrap, once the document has emitted its     *)
(* load-complete signal the window eventually becomes visible, with no     *)
(* show command executed; and the order is: window built hidden, event     *)
(* loop running, signal, delay, visible.                                   *)
C9_Order ==
    /\ dom # "none" => (pc = "running" /\ Exists("main"))
    /\ dom # "loaded" => ~Visible("main")
    /\ Visible("main") => (shown_at # <<>> /\ now >= signal_at[1] + Delay)

C9_EventuallyVisible ==
    /\ []C9_Order
    /\ (dom = "loaded") ~> Visible("main")

C9_Witness ==
    /\ Visible("main")
    /\ handled = 0
    /\ writes = <<"script">>

(* C10 as stated: an execution of show_main_window whose show fails has    *)
(* still added its log entry: the log is not left unchanged on the error   *)
(* path.                                                                   *)
C10_Original ==
    [][(handled' = handled + 1 /\ response' = "panicked")
          => log' = Append(log, LogEntry)]_vars

(* C10 as amended: in a debug build, where the logging facility is         *)
(* attached, an execution of show_main_window whose show fails has still   *)
(* added its log entry before aborting; in a release build no logger is    *)
(* attached and the log is left unchanged on the error path too.           *)
C10_Amended ==
    [][(handled' = handled + 1 /\ response' = "panicked")
          => log' = IF debug_assertions THEN Append(log, LogEntry) ELSE log]_vars

C10_Witness ==
    /\ debug_assertions
    /\ handled = 1
    /\ response = "panicked"
    /\ log = <<LogEntry>>

====
